---- MODULE Spec2Model ----
(***************************************************************************)
(* A model of selector_fixer.py: the SelectorFixer pipeline (selector      *)
(* extraction, the Ollama request, response normalisation, the code        *)
(* patcher, the report builder) and the command-line driver main().        *)
(*                                                                         *)
(* Text is a sequence of symbols.  A symbol is one character (x, a quote,  *)
(* a backtick, ...) or one lexeme whose letters no pattern of the program  *)
(* looks inside (mappings, find_element, json, ...).                       *)
(***************************************************************************)
EXTENDS Integers, Sequences, FiniteSets, TLC

VARIABLES
    pc,             \* position of the running operation
    args,           \* the arguments naming files, and whether each file exists
    files_read,     \* the input files main has read so far
    lookups,        \* the element lookups the brittle file was written from
    selenium_code,  \* text of the brittle test file
    endpoint,       \* what the text-generation endpoint will answer
    sent,           \* the Mapping Set the endpoint serialised (or Unset)
    response_text,  \* analyze_and_map_selectors: response_text
    mappings,       \* the parsed mapping value the operation works on
    updated_code,   \* update_selenium_code: updated_code
    report,         \* generate_report: the report lines
    selectors,      \* extract_selectors_from_selenium: the returned collection
    raised,         \* the exception that left the operation, or "none"
    written,        \* output files written so far
    net_calls,      \* number of requests.post calls made
    exit_code       \* process exit status, or "running"

vars == <<pc, args, files_read, lookups, selenium_code, endpoint, sent, response_text, mappings,
          updated_code, report, selectors, raised, written, net_calls, exit_code>>

----------------------------------------------------------------------------
(* Characters *)

\* (named, not written: the string lexer of the tools has no escape for them)
DQ == "dquote"
SQ == "squote"
BS == "backslash"
BT == "backtick"
SP == " "
NL == "newline"
\* a lone surrogate code point, as the JSON escape for U+D800 decodes to
SURROGATE == "surrogate"

Quotes == {DQ, SQ}
Whitespace == {SP, NL}
DigitChars == <<"0", "1", "2", "3", "4", "5", "6", "7", "8", "9">>
DigitSet == {DigitChars[i] : i \in 1..10}
LetterSet == {"x", "y"}

Range(s) == {s[i] : i \in 1..Len(s)}

\* sub in text
Occurs(sub, text) ==
    \E i \in 1..(Len(text) + 1) :
        i + Len(sub) - 1 <= Len(text) /\ SubSeq(text, i, i + Len(sub) - 1) = sub

RECURSIVE SeqsUpTo(_, _)
SeqsUpTo(S, n) ==
    IF n = 0 THEN {<<>>}
    ELSE LET shorter == SeqsUpTo(S, n - 1)
         IN  shorter \cup {Append(s, c) : s \in {t \in shorter : Len(t) = n - 1}, c \in S}

RECURSIVE Concat(_)
Concat(ss) == IF ss = <<>> THEN <<>> ELSE Head(ss) \o Concat(Tail(ss))

DigitValue(c) == CHOOSE d \in 0..9 : DigitChars[d + 1] = c

RECURSIVE Digits(_)
Digits(n) == IF n < 10 THEN <<DigitChars[n + 1]>>
             ELSE Digits(n \div 10) \o <<DigitChars[(n % 10) + 1]>>

----------------------------------------------------------------------------
(* Python values as produced by json.loads: one record shape for all. *)

JVal(tag, str, num, items, keys) ==
    [t |-> tag, s |-> str, n |-> num, items |-> items, keys |-> keys]

PyNone     == JVal("null", <<>>, 0, <<>>, <<>>)
Unset      == JVal("unset", <<>>, 0, <<>>, <<>>)
JBool(b)   == JVal("bool", <<>>, IF b THEN 1 ELSE 0, <<>>, <<>>)
JNum(n)    == JVal("num", <<>>, n, <<>>, <<>>)
JStr(s)    == JVal("str", s, 0, <<>>, <<>>)
JList(xs)  == JVal("list", <<>>, 0, xs, <<>>)
JDict(ks, xs) == JVal("dict", <<>>, 0, xs, ks)
EmptyStr   == JStr(<<>>)

K_mappings  == <<"mappings">>
K_recs      == <<"general_recommendations">>
K_broken    == <<"broken_selector">>
K_playwright == <<"playwright_equivalent">>
K_suggested == <<"suggested_xpath">>
K_css       == <<"suggested_css">>
K_reasoning == <<"reasoning">>
K_response  == <<"response">>
NA          == JStr(<<"N/A">>)

\* bool(v)
Truthy(v) ==
    CASE v.t = "null" -> FALSE
      [] v.t = "bool" -> v.n = 1
      [] v.t = "num"  -> v.n # 0
      [] v.t = "str"  -> v.s # <<>>
      [] v.t = "list" -> v.items # <<>>
      [] v.t = "dict" -> v.keys # <<>>
      [] OTHER -> FALSE

HasKey(d, k) == \E i \in 1..Len(d.keys) : d.keys[i] = k
Lookup(d, k) == d.items[CHOOSE i \in 1..Len(d.keys) : d.keys[i] = k]
\* dict.get(k, default) on a dict
Get(d, k, default) == IF HasKey(d, k) THEN Lookup(d, k) ELSE default

\* iter(v): the elements a for loop visits, or not iterable
Iterable(v) == v.t \in {"list", "dict", "str"}
Elements(v) ==
    CASE v.t = "list" -> v.items
      [] v.t = "dict" -> [i \in 1..Len(v.keys) |-> JStr(v.keys[i])]
      [] v.t = "str"  -> [i \in 1..Len(v.s) |-> JStr(<<v.s[i]>>)]
      [] OTHER -> <<>>

\* repr(str): single quotes unless the text holds a single and no double quote
ReprStr(s) ==
    LET q == IF SQ \in Range(s) /\ DQ \notin Range(s) THEN DQ ELSE SQ
        esc(c) == IF c = BS THEN <<BS, BS>>
                  ELSE IF c = NL THEN <<BS, "n">>
                  ELSE IF c = q THEN <<BS, c>>
                  ELSE <<c>>
    IN  <<q>> \o Concat([i \in 1..Len(s) |-> esc(s[i])]) \o <<q>>

RECURSIVE PyRepr(_)
RECURSIVE Join(_, _)
Join(parts, sep) ==
    IF parts = <<>> THEN <<>>
    ELSE IF Len(parts) = 1 THEN parts[1]
    ELSE parts[1] \o sep \o Join(Tail(parts), sep)
PyRepr(v) ==
    CASE v.t = "null" -> <<"None">>
      [] v.t = "bool" -> IF v.n = 1 THEN <<"True">> ELSE <<"False">>
      [] v.t = "num"  -> Digits(v.n)
      [] v.t = "str"  -> ReprStr(v.s)
      [] v.t = "list" ->
            <<"[">> \o Join([i \in 1..Len(v.items) |-> PyRepr(v.items[i])],
                               <<",", SP>>) \o <<"]">>
      [] v.t = "dict" ->
            <<"{">> \o Join([i \in 1..Len(v.keys) |->
                                    ReprStr(v.keys[i]) \o <<":", SP>> \o PyRepr(v.items[i])],
                               <<",", SP>>) \o <<"}">>
      [] OTHER -> <<>>

\* str(v), as an f-string field formats it
PyStr(v) == IF v.t = "str" THEN v.s ELSE PyRepr(v)

----------------------------------------------------------------------------
(* Values shared by the operations that a specification leaves untouched *)

NoText == <<"(no value)">>
NoEndpoint == [kind |-> "unused", body |-> Unset]
NoArgs == [selenium |-> "unused", playwright |-> "unused", test_results |-> "unused"]

----------------------------------------------------------------------------
(* re.sub(pattern, replacement, code) with the pattern                     *)
(*   [quote] ( re.escape(broken) ) [quote]                                 *)
(* and the replacement template  DQ suggested DQ.                          *)

OctalDigits == {"0", "1", "2", "3", "4", "5", "6", "7"}
KnownEscapes == {"a", "b", "f", "n", "r", "t", "v"}
AsciiLetters == LetterSet \cup KnownEscapes \cup {"g"}

\* sre_parse.parse_template on the replacement; group1 is the text matched
\* by the only group of the pattern.  BS BS is one backslash; BS 0.. and BS
\* followed by three octal digits are one character; BS 1 is group 1; any
\* other group number is an invalid group reference; BS g needs a bracketed
\* group name, which no text of the model holds; BS followed by a known
\* escape letter is one control character; BS followed by another ASCII
\* letter is a bad escape; BS followed by anything else stays as written.
RECURSIVE ExpandTemplate(_, _, _)
ExpandTemplate(template, i, group1) ==
    LET n == Len(template)
        at(j) == IF j <= n THEN template[j] ELSE "end"
        then(k, piece) ==
            LET rest == ExpandTemplate(template, k, group1)
            IN  [exc |-> rest.exc, out |-> piece \o rest.out]
        failed == [exc |-> "re.error", out |-> <<>>]
    IN  IF i > n THEN [exc |-> "none", out |-> <<>>]
        ELSE IF template[i] # BS THEN then(i + 1, <<template[i]>>)
        ELSE IF i = n THEN failed
        ELSE LET c == template[i + 1] IN
            IF c = "0" THEN
                IF at(i + 2) \in OctalDigits
                THEN IF at(i + 3) \in OctalDigits
                     THEN then(i + 4, <<"chr">>) ELSE then(i + 3, <<"chr">>)
                ELSE then(i + 2, <<"chr">>)
            ELSE IF c \in DigitSet THEN
                IF at(i + 2) \in DigitSet
                THEN IF c \in OctalDigits /\ at(i + 2) \in OctalDigits
                        /\ at(i + 3) \in OctalDigits
                     THEN IF c \in {"1", "2", "3"} THEN then(i + 4, <<"chr">>) ELSE failed
                     ELSE failed
                ELSE IF c = "1" THEN then(i + 2, group1) ELSE failed
            ELSE IF c = BS THEN then(i + 2, <<BS>>)
            ELSE IF c \in KnownEscapes THEN then(i + 2, <<"chr">>)
            ELSE IF c \in AsciiLetters THEN failed
            ELSE then(i + 2, <<BS, c>>)

\* does  [quote] broken [quote]  match at position i
MatchAt(text, i, broken) ==
    /\ i + Len(broken) + 1 <= Len(text)
    /\ text[i] \in Quotes
    /\ SubSeq(text, i + 1, i + Len(broken)) = broken
    /\ text[i + Len(broken) + 1] \in Quotes

\* leftmost, non-overlapping replacement of every match
RECURSIVE SubFrom(_, _, _, _)
SubFrom(text, i, broken, repl) ==
    IF i > Len(text) THEN <<>>
    ELSE IF MatchAt(text, i, broken)
         THEN repl \o SubFrom(text, i + Len(broken) + 2, broken, repl)
         ELSE <<text[i]>> \o SubFrom(text, i + 1, broken, repl)

re_sub(broken, template, text) ==
    LET e == ExpandTemplate(template, 1, broken)
    IN  IF e.exc # "none" THEN [exc |-> e.exc, val |-> text]
        ELSE [exc |-> "none", val |-> SubFrom(text, 1, broken, e.out)]

----------------------------------------------------------------------------
(* SelectorFixer.update_selenium_code *)

RECURSIVE UpdateLoop(_, _, _)
UpdateLoop(code, items, k) ==
    IF k > Len(items) THEN [exc |-> "none", val |-> code]
    ELSE LET mapping == items[k] IN
        IF mapping.t # "dict" THEN [exc |-> "AttributeError", val |-> code]
        ELSE LET broken    == Get(mapping, K_broken, EmptyStr)
                 suggested == Get(mapping, K_suggested, EmptyStr)
             IN  IF ~(Truthy(broken) /\ Truthy(suggested))
                 THEN UpdateLoop(code, items, k + 1)
                 ELSE IF broken.t # "str" THEN [exc |-> "TypeError", val |-> code]
                 ELSE LET r == re_sub(broken.s, <<DQ>> \o PyStr(suggested) \o <<DQ>>, code)
                      IN  IF r.exc # "none" THEN r
                          ELSE UpdateLoop(r.val, items, k + 1)

update_selenium_code(code, maps) ==
    IF ~Iterable(maps) THEN [exc |-> "TypeError", val |-> code]
    ELSE UpdateLoop(code, Elements(maps), 1)

----------------------------------------------------------------------------
(* json.dumps and json.loads on texts of symbols *)

EscapeJson(c) ==
    IF c = DQ THEN <<BS, DQ>>
    ELSE IF c = BS THEN <<BS, BS>>
    ELSE IF c = NL THEN <<BS, "n">>
    ELSE <<c>>
DumpStr(str) == <<DQ>> \o Concat([i \in 1..Len(str) |-> EscapeJson(str[i])]) \o <<DQ>>

\* json.dumps(v) with the default separators
RECURSIVE json_dumps(_)
json_dumps(v) ==
    CASE v.t = "null" -> <<"null">>
      [] v.t = "bool" -> IF v.n = 1 THEN <<"true">> ELSE <<"false">>
      [] v.t = "num"  -> Digits(v.n)
      [] v.t = "str"  -> DumpStr(v.s)
      [] v.t = "list" ->
            <<"[">> \o Join([i \in 1..Len(v.items) |-> json_dumps(v.items[i])],
                               <<",", SP>>) \o <<"]">>
      [] v.t = "dict" ->
            <<"{">> \o Join([i \in 1..Len(v.keys) |->
                                    DumpStr(v.keys[i]) \o <<":", SP>> \o json_dumps(v.items[i])],
                               <<",", SP>>) \o <<"}">>
      [] OTHER -> <<>>

ParseFail == [ok |-> FALSE, val |-> PyNone, pos |-> 0]
ParseOk(v, next) == [ok |-> TRUE, val |-> v, pos |-> next]
At(text, i) == IF i >= 1 /\ i <= Len(text) THEN text[i] ELSE "end"

RECURSIVE SkipWs(_, _)
SkipWs(text, i) ==
    IF At(text, i) \in Whitespace THEN SkipWs(text, i + 1) ELSE i

\* py_scanstring from the symbol after the opening quote
RECURSIVE ScanString(_, _, _)
ScanString(text, i, acc) ==
    LET c == At(text, i) IN
    IF c = "end" \/ c = NL \/ c = "chr" THEN ParseFail
    ELSE IF c = DQ THEN ParseOk(JStr(acc), i + 1)
    ELSE IF c = BS THEN
        LET e == At(text, i + 1) IN
        IF e \in {DQ, BS, "/"} THEN ScanString(text, i + 2, Append(acc, e))
        ELSE IF e = "n" THEN ScanString(text, i + 2, Append(acc, NL))
        ELSE IF e \in {"b", "f", "r", "t"} THEN ScanString(text, i + 2, Append(acc, "chr"))
        ELSE ParseFail
    ELSE ScanString(text, i + 1, Append(acc, c))

\* the integer a run of digits starting at i denotes (no leading zero)
RECURSIVE ScanDigits(_, _, _)
ScanDigits(text, i, acc) ==
    IF At(text, i) \in DigitSet
    THEN ScanDigits(text, i + 1, 10 * acc + DigitValue(text[i]))
    ELSE ParseOk(JNum(acc), i)

\* dict[k] = v on the pairs read so far: a repeated key keeps its place and
\* takes the later value
SetItem(d, k, v) ==
    IF HasKey(d, k)
    THEN JDict(d.keys, [i \in 1..Len(d.keys) |-> IF d.keys[i] = k THEN v ELSE d.items[i]])
    ELSE JDict(Append(d.keys, k), Append(d.items, v))

RECURSIVE ParseValue(_, _)
RECURSIVE ParseElements(_, _, _)
RECURSIVE ParseMembers(_, _, _)

\* the scanner's scan_once at position i
ParseValue(text, i) ==
    LET c == At(text, i) IN
    CASE c = DQ -> ScanString(text, i + 1, <<>>)
      [] c = "{" ->
            LET j == SkipWs(text, i + 1)
            IN  IF At(text, j) = "}" THEN ParseOk(JDict(<<>>, <<>>), j + 1)
                ELSE ParseMembers(text, j, JDict(<<>>, <<>>))
      [] c = "[" ->
            LET j == SkipWs(text, i + 1)
            IN  IF At(text, j) = "]" THEN ParseOk(JList(<<>>), j + 1)
                ELSE ParseElements(text, j, <<>>)
      [] c = "null"  -> ParseOk(PyNone, i + 1)
      [] c = "true"  -> ParseOk(JBool(TRUE), i + 1)
      [] c = "false" -> ParseOk(JBool(FALSE), i + 1)
      [] c = "0" -> ParseOk(JNum(0), i + 1)
      [] c \in DigitSet \ {"0"} -> ScanDigits(text, i, 0)
      [] OTHER -> ParseFail

\* JSONArray from the first element on
ParseElements(text, i, acc) ==
    LET r == ParseValue(text, i) IN
    IF ~r.ok THEN ParseFail
    ELSE LET j == SkipWs(text, r.pos)
             c == At(text, j)
         IN  IF c = "]" THEN ParseOk(JList(Append(acc, r.val)), j + 1)
             ELSE IF c = "," THEN ParseElements(text, SkipWs(text, j + 1), Append(acc, r.val))
             ELSE ParseFail

\* JSONObject from the first property name on
ParseMembers(text, i, d) ==
    IF At(text, i) # DQ THEN ParseFail
    ELSE LET k == ScanString(text, i + 1, <<>>) IN
        IF ~k.ok THEN ParseFail
        ELSE LET j == SkipWs(text, k.pos) IN
            IF At(text, j) # ":" THEN ParseFail
            ELSE LET r == ParseValue(text, SkipWs(text, j + 1)) IN
                IF ~r.ok THEN ParseFail
                ELSE LET j2 == SkipWs(text, r.pos)
                         c  == At(text, j2)
                         d2 == SetItem(d, k.val.s, r.val)
                     IN  IF c = "}" THEN ParseOk(d2, j2 + 1)
                         ELSE IF c = "," THEN ParseMembers(text, SkipWs(text, j2 + 1), d2)
                         ELSE ParseFail

\* json.loads(text): ok is FALSE where it raises JSONDecodeError
json_loads(text) ==
    LET r == ParseValue(text, SkipWs(text, 1)) IN
    IF ~r.ok THEN ParseFail
    ELSE IF SkipWs(text, r.pos) = Len(text) + 1 THEN r ELSE ParseFail

\* str.strip()
RECURSIVE RStrip(_)
RStrip(text) ==
    IF text # <<>> /\ text[Len(text)] \in Whitespace
    THEN RStrip(SubSeq(text, 1, Len(text) - 1)) ELSE text
Strip(text) == LET i == SkipWs(text, 1) IN RStrip(SubSeq(text, i, Len(text)))

\* the fence pattern matches at i: three backticks, the word json when tagged
FenceAt(text, i, tagged) ==
    /\ At(text, i) = BT /\ At(text, i + 1) = BT /\ At(text, i + 2) = BT
    /\ (tagged => At(text, i + 3) = "json")

\* the leftmost match at or after i (0 when there is none)
NextFence(text, i, tagged) ==
    LET starts == {j \in i..Len(text) : FenceAt(text, j, tagged)}
    IN  IF starts = {} THEN 0 ELSE CHOOSE j \in starts : \A k \in starts : j <= k

\* re.sub of the fence pattern by the empty string, from position i on: the
\* text up to the next match is kept, the match (with the whitespace that
\* follows it) is dropped, and the search goes on after the match
RECURSIVE RemoveFences(_, _, _)
RemoveFences(text, i, tagged) ==
    LET j == NextFence(text, i, tagged) IN
    IF j = 0 THEN SubSeq(text, i, Len(text))
    ELSE SubSeq(text, i, j - 1)
         \o RemoveFences(text, SkipWs(text, j + (IF tagged THEN 4 ELSE 3)), tagged)

----------------------------------------------------------------------------
(* SelectorFixer.ollama_chat and SelectorFixer.analyze_and_map_selectors *)

NotJson == JVal("notjson", <<>>, 0, <<>>, <<>>)
HTTP_OK == 200

\* the body of the try block: requests.post may raise; a 200 answer is
\* decoded with response.json(), its response field is read with dict.get
\* and stripped; any other status gives the empty string
ollama_request(ep) ==
    IF ep.kind = "transport_error" THEN [exc |-> "ConnectionError", val |-> <<>>]
    ELSE IF ep.status # HTTP_OK THEN [exc |-> "none", val |-> <<>>]
    ELSE IF ep.body = NotJson THEN [exc |-> "JSONDecodeError", val |-> <<>>]
    ELSE IF ep.body.t # "dict" THEN [exc |-> "AttributeError", val |-> <<>>]
    ELSE LET field == Get(ep.body, K_response, EmptyStr) IN
        IF field.t # "str" THEN [exc |-> "AttributeError", val |-> <<>>]
        ELSE [exc |-> "none", val |-> Strip(field.s)]

\* except Exception: return the empty string
ollama_chat(ep) ==
    LET r == ollama_request(ep) IN
    IF r.exc # "none" THEN [exc |-> "none", val |-> <<>>] ELSE r

\* the text handed to json.loads
NormalizedText(raw) == Strip(RemoveFences(RemoveFences(raw, 1, TRUE), 1, FALSE))

\* print(text) on the standard output, whose encoder is strict UTF-8: a lone
\* surrogate (which the JSON escape of the body decodes to) cannot be encoded
PrintRaises(text) == \E i \in 1..Len(text) : text[i] = SURROGATE

\* json.loads succeeds: the value is returned. It fails: the JSONDecodeError
\* handler prints the message and the first 500 characters of the text (the
\* texts here are shorter), then returns None; what the handler raises is
\* caught by no other clause of the same try statement
analyze_and_map_selectors(ep) ==
    LET chat == ollama_chat(ep) IN
    IF chat.exc # "none" THEN [exc |-> chat.exc, val |-> PyNone, text |-> NoText]
    ELSE LET text == NormalizedText(chat.val)
             r    == json_loads(text)
         IN  IF r.ok THEN [exc |-> "none", val |-> r.val, text |-> text]
             ELSE IF PrintRaises(text)
                  THEN [exc |-> "UnicodeEncodeError", val |-> PyNone, text |-> text]
                  ELSE [exc |-> "none", val |-> PyNone, text |-> text]

----------------------------------------------------------------------------
(* SelectorFixer.extract_selectors_from_selenium *)

NoMatch == [ok |-> FALSE, group |-> <<>>, next |-> 0]

\* the run of symbols from i on that are no quote
RECURSIVE SkipNonQuotes(_, _)
SkipNonQuotes(text, i) ==
    IF i <= Len(text) /\ text[i] \notin Quotes THEN SkipNonQuotes(text, i + 1) ELSE i

\* the first comma at or after i (0 when there is none)
RECURSIVE FirstComma(_, _)
FirstComma(text, i) ==
    IF i > Len(text) THEN 0
    ELSE IF text[i] = "," THEN i ELSE FirstComma(text, i + 1)

\* the common end of the three patterns, from the symbol after the comma:
\* whitespace, a quote, one or more symbols that are no quote (the group), a
\* quote, and the closing parenthesis right after it
MatchLocator(text, i) ==
    LET j == SkipWs(text, i)
        k == SkipNonQuotes(text, j + 1)
    IN  IF /\ At(text, j) \in Quotes
           /\ k > j + 1
           /\ At(text, k) \in Quotes
           /\ At(text, k + 1) = ")"
        THEN [ok |-> TRUE, group |-> SubSeq(text, j + 1, k - 1), next |-> k + 2]
        ELSE NoMatch

\* name( then one or more symbols that are no comma, then the comma
MatchCall(text, i, name) ==
    IF At(text, i) = name /\ At(text, i + 1) = "("
    THEN LET c == FirstComma(text, i + 2)
         IN  IF c > i + 2 THEN MatchLocator(text, c + 1) ELSE NoMatch
    ELSE NoMatch

MatchByXPath(text, i) ==
    IF At(text, i) = "By.XPATH" /\ At(text, i + 1) = ","
    THEN MatchLocator(text, i + 2)
    ELSE NoMatch

MatchPattern(text, i, pattern) ==
    IF pattern = "By.XPATH" THEN MatchByXPath(text, i) ELSE MatchCall(text, i, pattern)

\* re.findall(pattern, text): the groups of the non-overlapping matches,
\* leftmost first
RECURSIVE FindAll(_, _, _)
FindAll(text, i, pattern) ==
    IF i > Len(text) THEN <<>>
    ELSE LET m == MatchPattern(text, i, pattern)
         IN  IF m.ok THEN <<m.group>> \o FindAll(text, m.next, pattern)
             ELSE FindAll(text, i + 1, pattern)

Patterns == <<"find_element", "find_elements", "By.XPATH">>

\* list(set(selectors)): the order is not kept
extract_selectors_from_selenium(code) ==
    UNION {Range(FindAll(code, 1, Patterns[p])) : p \in 1..Len(Patterns)}

----------------------------------------------------------------------------
(* SelectorFixer.generate_report *)

RuleEq   == <<"=*80">>
RuleDash == <<"-*80">>
Title    == <<"SELENIUM SELECTOR FIX REPORT">>
CountLabel == "Total Selectors Analyzed: "
BlockLabel == ". SELECTOR MAPPING"
RecsTitle  == <<"GENERAL RECOMMENDATIONS">>
Bullet     == "bullet "

Lines(ls) == [exc |-> "none", lines |-> ls]
Raises(e) == [exc |-> e, lines |-> <<>>]

\* key in v: defined on dicts, lists and strings
CanContain(v) == v.t \in {"dict", "list", "str"}
Contains(v, k) ==
    CASE v.t = "dict" -> HasKey(v, k)
      [] v.t = "list" -> \E i \in 1..Len(v.items) : v.items[i] = JStr(k)
      [] v.t = "str"  -> Occurs(k, v.s)
      [] OTHER -> FALSE

Sized(v) == v.t \in {"str", "list", "dict"}
PyLen(v) == Len(Elements(v))

\* one numbered block of the report
MappingBlock(i, mapping) ==
    << <<NL>> \o Digits(i) \o <<BlockLabel>>,
       RuleDash,
       <<"Broken XPath:      ">> \o PyStr(Get(mapping, K_broken, NA)),
       <<"Playwright Equiv:  ">> \o PyStr(Get(mapping, K_playwright, NA)),
       <<"Suggested XPath:   ">> \o PyStr(Get(mapping, K_suggested, NA)) >>
    \o (IF Truthy(Get(mapping, K_css, PyNone))
        THEN << <<"Alternative CSS:   ">> \o PyStr(Lookup(mapping, K_css)) >>
        ELSE <<>>)
    \o << <<NL, "Reasoning: ">> \o PyStr(Get(mapping, K_reasoning, NA)),
          <<>> >>

RECURSIVE MappingBlocks(_, _)
MappingBlocks(items, k) ==
    IF k > Len(items) THEN Lines(<<>>)
    ELSE IF items[k].t # "dict" THEN Raises("AttributeError")
    ELSE LET rest == MappingBlocks(items, k + 1)
         IN  IF rest.exc # "none" THEN rest
             ELSE Lines(MappingBlock(k, items[k]) \o rest.lines)

\* if mappings and 'mappings' in mappings: the count and the blocks
MappingsSection(m) ==
    IF ~Truthy(m) THEN Lines(<<>>)
    ELSE IF ~CanContain(m) THEN Raises("TypeError")
    ELSE IF ~Contains(m, K_mappings) THEN Lines(<<>>)
    ELSE IF m.t # "dict" THEN Raises("TypeError")
    ELSE LET v == Lookup(m, K_mappings) IN
        IF ~Sized(v) THEN Raises("TypeError")
        ELSE LET blocks == MappingBlocks(Elements(v), 1)
             IN  IF blocks.exc # "none" THEN blocks
                 ELSE Lines(<< <<CountLabel>> \o Digits(PyLen(v)), <<>>, RuleDash >>
                            \o blocks.lines)

\* if mappings and 'general_recommendations' in mappings: header and bullets
RecommendationsSection(m) ==
    IF ~Truthy(m) THEN Lines(<<>>)
    ELSE IF ~CanContain(m) THEN Raises("TypeError")
    ELSE IF ~Contains(m, K_recs) THEN Lines(<<>>)
    ELSE IF m.t # "dict" THEN Raises("TypeError")
    ELSE LET v == Lookup(m, K_recs) IN
        IF ~Iterable(v) THEN Raises("TypeError")
        ELSE Lines(<< <<NL>> \o RuleEq, RecsTitle, RuleEq >>
                   \o [i \in 1..PyLen(v) |-> <<Bullet>> \o PyStr(Elements(v)[i])])

\* the report text: the lines joined by newlines
generate_report(m) ==
    LET s1 == MappingsSection(m) IN
    IF s1.exc # "none" THEN [exc |-> s1.exc, val |-> NoText]
    ELSE LET s2 == RecommendationsSection(m) IN
        IF s2.exc # "none" THEN [exc |-> s2.exc, val |-> NoText]
        ELSE [exc |-> "none",
              val |-> Join(<<RuleEq, Title, RuleEq, <<>>>> \o s1.lines \o s2.lines,
                               <<NL>>)]

----------------------------------------------------------------------------
(* The normaliser called on its own: analyze_and_map_selectors against     *)
(* every kind of answer of the endpoint                                    *)

MaxStrPieces == 2
MaxSetEntries == 1
MaxRecs == 1

\* field texts: up to MaxStrPieces pieces, among them the characters JSON
\* escapes and the code-fence markers the normaliser looks for
FieldPieces == {<<"x">>, <<DQ>>, <<BS>>, <<SP>>, <<BT, BT, BT>>, <<BT, BT, BT, "json">>}
FieldStrs == {Concat(ps) : ps \in SeqsUpTo(FieldPieces, MaxStrPieces)}
EntryKeys == <<K_broken, K_playwright, K_suggested, K_css, K_reasoning>>
FullEntry(str) == JDict(EntryKeys, [i \in 1..5 |-> JStr(str)])
MappingSet(entries, recs) == JDict(<<K_mappings, K_recs>>, <<JList(entries), JList(recs)>>)
\* Mapping Sets with up to MaxSetEntries entries and MaxRecs recommendations
\* whose strings are all the same text of FieldStrs
MappingSets ==
    {MappingSet([i \in 1..ne |-> FullEntry(str)], [i \in 1..nr |-> JStr(str)]) :
        ne \in 0..MaxSetEntries, nr \in 0..MaxRecs, str \in FieldStrs}

Fence == <<BT, BT, BT>>
Wrappings == {"bare", "fenced", "fenced_json"}
Wrap(w, text) ==
    CASE w = "bare" -> text
      [] w = "fenced" -> Fence \o <<NL>> \o text \o <<NL>> \o Fence
      [] w = "fenced_json" -> Fence \o <<"json", NL>> \o text \o <<NL>> \o Fence

\* answers that are no serialised Mapping Set: prose, nothing, cut-off or
\* malformed JSON, JSON of another shape
OtherTexts ==
    { <<>>, <<SP>>, <<"Sorry">>, <<"Sorry", NL, "{", "}">>, <<"{">>,
      <<"{", DQ, "x", DQ, "}">>, <<"[", "1", ",", "]">>, <<"1", SP, "2">>,
      <<DQ, "x">>, Fence \o <<"json", NL>> \o Fence,
      <<"{", "}">>, <<"[", "]">>, <<"[", "1", "]">>, <<"0">>, <<"5">>,
      <<DQ, DQ>>, <<DQ, "x", DQ>>, <<"null">>, <<"true">>, <<"false">>,
      <<SURROGATE, "Sorry">>, <<DQ, SURROGATE, DQ>> }

Answer(text) == [kind |-> "response", status |-> HTTP_OK,
                 body |-> JDict(<<K_response>>, <<JStr(text)>>)]
FailedAnswers ==
    { [kind |-> "transport_error", status |-> 0, body |-> Unset],
      [kind |-> "response", status |-> 500, body |-> NotJson],
      [kind |-> "response", status |-> 404, body |-> JDict(<<>>, <<>>)],
      [kind |-> "response", status |-> HTTP_OK, body |-> NotJson],
      [kind |-> "response", status |-> HTTP_OK, body |-> JList(<<>>)],
      [kind |-> "response", status |-> HTTP_OK, body |-> JStr(<<"x">>)],
      [kind |-> "response", status |-> HTTP_OK, body |-> JDict(<<>>, <<>>)],
      [kind |-> "response", status |-> HTTP_OK, body |-> JDict(<<K_response>>, <<PyNone>>)],
      [kind |-> "response", status |-> HTTP_OK, body |-> JDict(<<K_response>>, <<JNum(5)>>)],
      [kind |-> "response", status |-> HTTP_OK,
       body |-> JDict(<<K_response>>, <<JList(<<JStr(<<"x">>)>>)>>)] }

AnalyzeInputs ==
    {[endpoint |-> Answer(Wrap(w, json_dumps(m))), sent |-> m] :
        w \in Wrappings, m \in MappingSets}
    \cup {[endpoint |-> Answer(t), sent |-> Unset] : t \in OtherTexts}
    \cup {[endpoint |-> ep, sent |-> Unset] : ep \in FailedAnswers}

AnalyzeInit ==
    /\ pc = "analyze_start"
    /\ \E in \in AnalyzeInputs : endpoint = in.endpoint /\ sent = in.sent
    /\ selenium_code = NoText
    /\ mappings = Unset
    /\ updated_code = NoText
    /\ raised = "none"
    /\ args = NoArgs
    /\ files_read = {}
    /\ lookups = <<>>
    /\ response_text = NoText
    /\ report = NoText
    /\ selectors = {}
    /\ written = {}
    /\ net_calls = 0
    /\ exit_code = "running"

AnalyzeCall ==
    /\ pc = "analyze_start"
    /\ LET r == analyze_and_map_selectors(endpoint)
       IN  /\ raised' = r.exc
           /\ mappings' = IF r.exc = "none" THEN r.val ELSE Unset
           /\ response_text' = r.text
    /\ net_calls' = net_calls + 1
    /\ pc' = "analyze_done"
    /\ UNCHANGED <<args, files_read, lookups, selenium_code, endpoint, sent, updated_code, report,
                   selectors, written, exit_code>>

AnalyzeNext == AnalyzeCall
SpecAnalyze == AnalyzeInit /\ [][AnalyzeNext]_vars

CallFailed(ep) ==
    \/ ep.kind = "transport_error"
    \/ ep.status # HTTP_OK
    \/ ep.body.t # "dict"
    \/ Get(ep.body, K_response, EmptyStr).t # "str"

\* C4: analyze_and_map_selectors never raises, whatever the endpoint does;
\* a failed call degrades to the empty text; and when the text left after
\* fence removal is not parseable the function returns None.
C4_NormalizerNeverRaises ==
    pc = "analyze_done" =>
        /\ raised = "none"
        /\ CallFailed(endpoint) => response_text = <<>>
        /\ ~json_loads(response_text).ok => mappings = PyNone

\* C5: when the endpoint returns the JSON serialisation of a Mapping Set,
\* bare or between code-fence markers, the function returns that Mapping
\* Set, every entry field and recommendation string unchanged.
C5_NormalizerRoundTrip ==
    (pc = "analyze_done" /\ sent # Unset) => (raised = "none" /\ mappings = sent)

----------------------------------------------------------------------------
(* The report builder called on its own: generate_report(mappings, path)   *)

MaxReportEntries == 1

\* entries holding any of the five fields; a field that is present holds x,
\* and the alternative selector may also be present and empty
ReportEntries ==
    {JDict(SelectSeq(EntryKeys, LAMBDA k : k \in present),
           [i \in 1..Cardinality(present) |-> JStr(<<"x">>)]) :
        present \in SUBSET Range(EntryKeys)}
    \cup {JDict(<<K_broken, K_css>>, <<JStr(<<"x">>), EmptyStr>>)}
ReportRecs == {[i \in 1..n |-> JStr(<<"x">>)] : n \in 0..MaxRecs}
ReportValues ==
    {PyNone, JDict(<<>>, <<>>)}
    \cup {MappingSet(es, rs) : es \in SeqsUpTo(ReportEntries, MaxReportEntries),
                               rs \in ReportRecs}
    \cup {JDict(<<K_mappings>>, <<JList(es)>>) : es \in SeqsUpTo(ReportEntries, MaxReportEntries)}
    \cup {JDict(<<K_recs>>, <<JList(rs)>>) : rs \in ReportRecs}

ReportInit ==
    /\ pc = "report_start"
    /\ mappings \in ReportValues
    /\ args \in {[output_file |-> given] : given \in BOOLEAN}
    /\ files_read = {}
    /\ lookups = <<>>
    /\ selenium_code = NoText
    /\ endpoint = NoEndpoint
    /\ sent = Unset
    /\ response_text = NoText
    /\ updated_code = NoText
    /\ report = NoText
    /\ selectors = {}
    /\ raised = "none"
    /\ written = {}
    /\ net_calls = 0
    /\ exit_code = "running"

ReportCall ==
    /\ pc = "report_start"
    /\ LET r == generate_report(mappings)
       IN  /\ raised' = r.exc
           /\ report' = r.val
           /\ written' = IF r.exc = "none" /\ args.output_file
                         THEN written \cup {"report"} ELSE written
    /\ pc' = "report_done"
    /\ UNCHANGED <<args, files_read, lookups, selenium_code, endpoint, sent,
                   response_text, mappings, updated_code, selectors, net_calls, exit_code>>

ReportNext == ReportCall
SpecReport == ReportInit /\ [][ReportNext]_vars

EmptyMappingSet == MappingSet(<<>>, <<>>)
HasBanner(text) == Len(text) >= 5 /\ SubSeq(text, 1, 5) = RuleEq \o <<NL>> \o Title \o <<NL>> \o RuleEq
HasCountZero(text) == Occurs(<<NL, CountLabel, "0", NL>>, text)
HasNumberedBlock(text) == BlockLabel \in Range(text)
HasRecsHeader(text) == Occurs(RecsTitle, text)

\* C8: the report of an empty Mapping Set (no entry, no recommendation)
\* holds the banner and the count line with 0, no numbered block and no
\* recommendations header.
C8_EmptySetNoRecsHeader ==
    (pc = "report_done" /\ mappings = EmptyMappingSet) =>
        /\ raised = "none"
        /\ HasBanner(report) /\ HasCountZero(report)
        /\ ~HasNumberedBlock(report)
        /\ ~HasRecsHeader(report)

----------------------------------------------------------------------------
(* main(): one run of the command-line tool *)

MaxMainEntries == 1

MainCode == <<"find_element", "(", "By.XPATH", ",", SP, DQ, "x", DQ, ")", NL,
              "find_element", "(", "By.XPATH", ",", SP, SQ, "x", SQ, ")">>

\* what the model may answer: entries with a field missing or not a string,
\* a mappings field that is no list of objects, recommendations that are no
\* list, and values that are no object at all
Field(k, choices) == {<<>>} \cup {<<[k |-> k, v |-> c]>> : c \in choices}
FromPairs(pairs) == JDict([i \in 1..Len(pairs) |-> pairs[i].k],
                          [i \in 1..Len(pairs) |-> pairs[i].v])
MainEntries ==
    {FromPairs(b \o sg) :
        b  \in Field(K_broken, {JStr(<<"x">>), JNum(5), PyNone}),
        sg \in Field(K_suggested, {JStr(<<"y">>), JStr(<<BS, "y">>), JNum(5)})}
MainElements == MainEntries \cup {JNum(1), JStr(<<"x">>)}
MainMappingsFields ==
    Field(K_mappings,
          {PyNone, JNum(5), JStr(<<>>), JStr(<<"x">>), JDict(<<>>, <<>>),
           JDict(<<K_broken>>, <<JStr(<<"x">>)>>)}
          \cup {JList(es) : es \in SeqsUpTo(MainElements, MaxMainEntries)})
MainRecsFields ==
    Field(K_recs, {PyNone, JNum(5), JList(<<>>), JList(<<JStr(<<"x">>)>>)})
MainValues ==
    {FromPairs(m \o r) : m \in MainMappingsFields, r \in MainRecsFields}
    \cup {JNum(5), JBool(TRUE), JStr(<<"x">>), JList(<<JNum(1)>>),
          JList(<<JStr(K_mappings)>>)}
MainAnswers ==
    {Answer(json_dumps(v)) : v \in MainValues}
    \cup {Answer(t) : t \in OtherTexts}
    \cup FailedAnswers

MainInit ==
    /\ pc = "read_selenium"
    /\ args \in [selenium : {"present", "missing"},
                 playwright : {"present", "missing"},
                 test_results : {"absent", "present", "missing"}]
    /\ endpoint \in MainAnswers
    /\ selenium_code = MainCode
    /\ files_read = {}
    /\ lookups = <<>>
    /\ sent = Unset
    /\ response_text = NoText
    /\ mappings = Unset
    /\ updated_code = NoText
    /\ report = NoText
    /\ selectors = {}
    /\ raised = "none"
    /\ written = {}
    /\ net_calls = 0
    /\ exit_code = "running"

given == <<args, lookups, selenium_code, endpoint, sent, selectors>>

\* sys.exit(1) after the printed error
Exit1 == pc' = "exited" /\ exit_code' = 1 /\ raised' = raised
\* an exception nothing catches: traceback, exit status 1
Uncaught(e) == pc' = "exited" /\ exit_code' = 1 /\ raised' = e

\* Path(args.selenium).read_text() inside the try
MainReadSelenium ==
    /\ pc = "read_selenium"
    /\ IF args.selenium = "missing"
       THEN Exit1 /\ UNCHANGED files_read
       ELSE /\ files_read' = files_read \cup {"selenium"}
            /\ pc' = "read_playwright"
            /\ UNCHANGED <<exit_code, raised>>
    /\ UNCHANGED <<given, response_text, mappings, updated_code, report, written, net_calls>>

MainReadPlaywright ==
    /\ pc = "read_playwright"
    /\ IF args.playwright = "missing"
       THEN Exit1 /\ UNCHANGED files_read
       ELSE /\ files_read' = files_read \cup {"playwright"}
            /\ pc' = "read_test_results"
            /\ UNCHANGED <<exit_code, raised>>
    /\ UNCHANGED <<given, response_text, mappings, updated_code, report, written, net_calls>>

\* a missing failure log is read as no failure log at all
MainReadTestResults_Tolerant ==
    /\ pc = "read_test_results"
    /\ files_read' = IF args.test_results = "present"
                     THEN files_read \cup {"test_results"} ELSE files_read
    /\ pc' = "analyze"
    /\ UNCHANGED <<given, response_text, mappings, updated_code, report, written,
                   net_calls, exit_code, raised>>

\* Path(args.test_results).read_text() if args.test_results else None
MainReadTestResults ==
    /\ pc = "read_test_results"
    /\ IF args.test_results = "missing"
       THEN Exit1 /\ UNCHANGED files_read
       ELSE /\ files_read' = IF args.test_results = "present"
                             THEN files_read \cup {"test_results"} ELSE files_read
            /\ pc' = "analyze"
            /\ UNCHANGED <<exit_code, raised>>
    /\ UNCHANGED <<given, response_text, mappings, updated_code, report, written, net_calls>>

\* mappings = fixer.analyze_and_map_selectors(...): the one network call
MainAnalyze ==
    /\ pc = "analyze"
    /\ net_calls' = net_calls + 1
    /\ LET r == analyze_and_map_selectors(endpoint)
       IN  /\ response_text' = r.text
           /\ IF r.exc # "none"
              THEN Uncaught(r.exc) /\ UNCHANGED mappings
              ELSE /\ mappings' = r.val
                   /\ pc' = "check"
                   /\ UNCHANGED <<exit_code, raised>>
    /\ UNCHANGED <<given, files_read, updated_code, report, written>>

\* if not mappings: print the error, sys.exit(1)
MainCheck ==
    /\ pc = "check"
    /\ IF ~Truthy(mappings)
       THEN Exit1
       ELSE pc' = "update" /\ UNCHANGED <<exit_code, raised>>
    /\ UNCHANGED <<given, files_read, response_text, mappings, updated_code, report,
                   written, net_calls>>

\* updated_code = fixer.update_selenium_code(selenium_code, mappings.get('mappings', []))
MainUpdate ==
    /\ pc = "update"
    /\ IF mappings.t # "dict"
       THEN Uncaught("AttributeError") /\ UNCHANGED updated_code
       ELSE LET r == update_selenium_code(selenium_code, Get(mappings, K_mappings, JList(<<>>)))
            IN  IF r.exc # "none"
                THEN Uncaught(r.exc) /\ UNCHANGED updated_code
                ELSE /\ updated_code' = r.val
                     /\ pc' = "write_patched"
                     /\ UNCHANGED <<exit_code, raised>>
    /\ UNCHANGED <<given, files_read, response_text, mappings, report, written, net_calls>>

\* Path(output_path).write_text(updated_code)
MainWritePatched ==
    /\ pc = "write_patched"
    /\ written' = written \cup {"patched"}
    /\ pc' = "report"
    /\ UNCHANGED <<given, files_read, response_text, mappings, updated_code, report,
                   net_calls, exit_code, raised>>

\* report = fixer.generate_report(mappings, report_path)
MainReport ==
    /\ pc = "report"
    /\ LET r == generate_report(mappings)
       IN  IF r.exc # "none"
           THEN Uncaught(r.exc) /\ UNCHANGED <<report, written>>
           ELSE /\ report' = r.val
                /\ written' = written \cup {"report"}
                /\ pc' = "summary"
                /\ UNCHANGED <<exit_code, raised>>
    /\ UNCHANGED <<given, files_read, response_text, mappings, updated_code, net_calls>>

\* value[:n]
Sliceable(v) == v.t \in {"str", "list"}

\* the summary: the count, and the first 60 characters of the broken and
\* suggested selectors of the first three mappings
SummaryRaises(m) ==
    IF ~(Truthy(m) /\ m.t = "dict" /\ HasKey(m, K_mappings)) THEN "none"
    ELSE LET v == Lookup(m, K_mappings) IN
        IF ~Sized(v) \/ ~Sliceable(v) THEN "TypeError"
        ELSE LET first == SubSeq(Elements(v), 1, IF PyLen(v) < 3 THEN PyLen(v) ELSE 3)
             IN  IF \E i \in 1..Len(first) : first[i].t # "dict" THEN "AttributeError"
                 ELSE IF \E i \in 1..Len(first) :
                            \/ ~Sliceable(Get(first[i], K_broken, NA))
                            \/ ~Sliceable(Get(first[i], K_suggested, NA))
                      THEN "TypeError"
                      ELSE "none"

\* the printed summary, then the end of main: exit status 0
MainSummary ==
    /\ pc = "summary"
    /\ LET e == SummaryRaises(mappings)
       IN  IF e # "none" THEN Uncaught(e)
           ELSE pc' = "exited" /\ exit_code' = 0 /\ UNCHANGED raised
    /\ UNCHANGED <<given, files_read, response_text, mappings, updated_code, report,
                   written, net_calls>>

MainNext ==
    \/ MainReadSelenium
    \/ MainReadPlaywright
    \/ MainReadTestResults
    \/ MainAnalyze
    \/ MainCheck
    \/ MainUpdate
    \/ MainWritePatched
    \/ MainReport
    \/ MainSummary
SpecMain == MainInit /\ [][MainNext]_vars

MissingInput == \E f \in DOMAIN args : args[f] = "missing"
GivenFiles == {f \in DOMAIN args : args[f] = "present"}
BothWritten == {"patched", "report"}

\* C3: when an input file that was given cannot be read, the run ends with
\* exit code 1 before the request to the model endpoint is made and before any
\* output file is written; the request is made once, after every given input
\* file was read.
C3_MissingInputAbortsBeforeCall ==
    /\ net_calls <= 1
    /\ net_calls > 0 => (~MissingInput /\ files_read = GivenFiles)
    /\ MissingInput =>
          /\ net_calls = 0
          /\ written = {}
          /\ pc \in {"read_selenium", "read_playwright", "read_test_results", "exited"}
          /\ pc = "exited" => exit_code = 1

C3_Witness_MissingTestResultsExits ==
    /\ pc = "exited"
    /\ args = [selenium |-> "present", playwright |-> "present", test_results |-> "missing"]
    /\ files_read = {"selenium", "playwright"}
    /\ exit_code = 1
    /\ net_calls = 0

\* C2: no partial success. A run that made the request either obtained no
\* Mapping Set (the analysis returned None or an empty value) and then ends
\* with exit code 1 and no output file, or it writes both the patched file and
\* the report and ends with exit code 0; an output file is written only after
\* a Mapping Set was obtained.
C2_NoPartialSuccess ==
    /\ written # {} => (net_calls = 1 /\ Truthy(mappings))
    /\ (pc = "exited" /\ net_calls = 1) =>
          IF Truthy(mappings)
          THEN exit_code = 0 /\ written = BothWritten
          ELSE exit_code = 1 /\ written = {}

\* C10: whatever JSON value the model answers with, the run ends in a
\* controlled outcome: no exception leaves main, and the run either reported a
\* failure with exit code 1 and wrote nothing, or wrote both files and ended
\* with exit code 0.
C10_AnyJsonValueIsHandled ==
    pc = "exited" =>
        /\ raised = "none"
        /\ \/ exit_code = 1 /\ written = {}
           \/ exit_code = 0 /\ written = BothWritten

----------------------------------------------------------------------------
(* The extractor called on its own, on files written from element lookups  *)

MaxLookups == 2

Calls == {"find_element", "find_elements"}
Layouts == {"one_line", "wrapped", "spread"}
LocatorNames == {"//a", "//b", "attribute"}
OtherQuote(q) == IF q = DQ THEN SQ ELSE DQ
\* the literal between the quotes; the attribute locator holds the other
\* quote character, as //div[@class=... does in the example test
LocatorText(name, q) ==
    IF name = "attribute"
    THEN <<"//c[@id=", OtherQuote(q), "u", OtherQuote(q), "]">>
    ELSE <<name>>
\* the source text of one lookup
Render(l) ==
    LET lit == <<l.quote>> \o LocatorText(l.locator, l.quote) \o <<l.quote>>
        head == <<"driver.", l.call, "(">>
    IN  CASE l.layout = "one_line" ->
                head \o <<"By.XPATH", ",", SP>> \o lit \o <<")">>
          [] l.layout = "wrapped" ->
                head \o <<NL, SP, "By.XPATH", ",", NL, SP>> \o lit \o <<")">>
          [] l.layout = "spread" ->
                head \o <<NL, SP, "By.XPATH", ",", SP, NL, SP>> \o lit \o <<NL, SP, ")">>
AllLookups == [call : Calls, layout : Layouts, quote : Quotes, locator : LocatorNames]
DistinctLocators(ls) ==
    \A i, j \in 1..Len(ls) :
        i # j => LocatorText(ls[i].locator, ls[i].quote) # LocatorText(ls[j].locator, ls[j].quote)
LookupLists == {ls \in SeqsUpTo(AllLookups, MaxLookups) : DistinctLocators(ls)}
FileOf(ls) == Join([i \in 1..Len(ls) |-> Render(ls[i])], <<NL>>)

ExtractInit ==
    /\ pc = "extract_start"
    /\ lookups \in LookupLists
    /\ selenium_code = FileOf(lookups)
    /\ args = NoArgs
    /\ files_read = {}
    /\ endpoint = NoEndpoint
    /\ sent = Unset
    /\ response_text = NoText
    /\ mappings = Unset
    /\ updated_code = NoText
    /\ report = NoText
    /\ selectors = {}
    /\ raised = "none"
    /\ written = {}
    /\ net_calls = 0
    /\ exit_code = "running"

ExtractCall ==
    /\ pc = "extract_start"
    /\ selectors' = extract_selectors_from_selenium(selenium_code)
    /\ pc' = "extract_done"
    /\ UNCHANGED <<args, files_read, lookups, selenium_code, endpoint, sent, response_text,
                   mappings, updated_code, report, raised, written, net_calls, exit_code>>

ExtractNext == ExtractCall
SpecExtract == ExtractInit /\ [][ExtractNext]_vars

\* C6: for a file of N well-formed lookups with pairwise distinct literal
\* locators (either quote style, on one line or over several, locators that
\* may hold the other quote character) the extractor returns exactly those N
\* locators; for a file with no lookup it returns nothing.
C6_ExtractsEveryLocator ==
    pc = "extract_done" =>
        /\ selectors = {LocatorText(lookups[i].locator, lookups[i].quote) :
                            i \in 1..Len(lookups)}
        /\ Cardinality(selectors) = Len(lookups)

----------------------------------------------------------------------------
(* The code patcher called on its own: update_selenium_code(text, entries) *)

MaxPieces == 3
MaxBrokenLen == 1
MaxSuggestedLen == 2
MaxEntries == 2

\* a text is made of quoted selectors in either quote style and of loose
\* characters around them
TextPieces == {<<DQ, "x", DQ>>, <<SQ, "x", SQ>>, <<DQ, "y", DQ>>, <<"x">>, <<DQ>>}
PatchTexts == {Concat(ps) : ps \in SeqsUpTo(TextPieces, MaxPieces)}
BrokenStrs == SeqsUpTo({"x", "y"}, MaxBrokenLen)
SuggestedStrs == SeqsUpTo({"y", BS, "1"}, MaxSuggestedLen)
Entry(b, sg) == JDict(<<K_broken, K_suggested>>, <<JStr(b), JStr(sg)>>)
PatchEntries == {Entry(b, sg) : b \in BrokenStrs, sg \in SuggestedStrs}
PatchLists == {JList(es) : es \in SeqsUpTo(PatchEntries, MaxEntries)}

PatchInit ==
    /\ pc = "patch_start"
    /\ selenium_code \in PatchTexts
    /\ mappings \in PatchLists
    /\ updated_code = NoText
    /\ raised = "none"
    /\ args = NoArgs
    /\ files_read = {}
    /\ lookups = <<>>
    /\ endpoint = NoEndpoint
    /\ sent = Unset
    /\ response_text = NoText
    /\ report = NoText
    /\ selectors = {}
    /\ written = {}
    /\ net_calls = 0
    /\ exit_code = "running"

PatchCall ==
    /\ pc = "patch_start"
    /\ LET r == update_selenium_code(selenium_code, mappings)
       IN  /\ raised' = r.exc
           /\ updated_code' = IF r.exc = "none" THEN r.val ELSE NoText
    /\ pc' = "patch_done"
    /\ UNCHANGED <<args, files_read, lookups, selenium_code, endpoint, sent, response_text, mappings,
                   report, selectors, written, net_calls, exit_code>>

PatchNext == PatchCall
SpecPatch == PatchInit /\ [][PatchNext]_vars

\* The patcher of the contract: every entry with two non-empty fields, in
\* list order, replaces each quoted occurrence of its broken selector by its
\* suggested replacement, taken as it is written, between double quotes.
RECURSIVE ContractPatch(_, _, _)
ContractPatch(code, items, k) ==
    IF k > Len(items) THEN code
    ELSE LET b  == Get(items[k], K_broken, EmptyStr).s
             sg == Get(items[k], K_suggested, EmptyStr).s
         IN  IF b = <<>> \/ sg = <<>> THEN ContractPatch(code, items, k + 1)
             ELSE ContractPatch(SubFrom(code, 1, b, <<DQ>> \o sg \o <<DQ>>), items, k + 1)

Active(e) == Get(e, K_broken, EmptyStr).s # <<>> /\ Get(e, K_suggested, EmptyStr).s # <<>>

\* C1: update_selenium_code returns the text in which, entry by entry in
\* list order, every quoted occurrence of a broken selector is replaced by
\* exactly the suggested replacement between double quotes, whatever
\* characters the two fields contain.
C1_PatchInsertsSuggestedVerbatim ==
    pc = "patch_done" =>
        /\ raised = "none"
        /\ updated_code = ContractPatch(selenium_code, mappings.items, 1)

\* C7: when no broken selector of the entries occurs in the text, the call
\* returns the input text.
C7_NoOpWithoutOccurrence ==
    (/\ pc = "patch_done"
     /\ \A i \in 1..Len(mappings.items) :
            ~Occurs(Get(mappings.items[i], K_broken, EmptyStr).s, selenium_code))
    => (raised = "none" /\ updated_code = selenium_code)

\* an entry inserts the broken selector of a later entry, or two entries
\* share a broken selector
ChainedOrDuplicate(items) ==
    \E i, j \in 1..Len(items) :
        /\ i < j /\ Active(items[i]) /\ Active(items[j])
        /\ \/ Get(items[i], K_suggested, EmptyStr) = Get(items[j], K_broken, EmptyStr)
           \/ Get(items[i], K_broken, EmptyStr) = Get(items[j], K_broken, EmptyStr)

\* C9: entries are applied strictly in list order to the progressively
\* updated text with no protection against re-matching: when an entry
\* inserts the broken selector of a later entry, or two entries share a
\* broken selector, the result is the one the sequential replacement of the
\* written fields gives (the later entry rewrites what the earlier inserted,
\* the earlier of two equal broken selectors wins).
C9_EntriesChainInListOrder ==
    (pc = "patch_done" /\ ChainedOrDuplicate(mappings.items)) =>
        /\ raised = "none"
        /\ updated_code = ContractPatch(selenium_code, mappings.items, 1)

====
